---- MODULE Spec2Model ----
(***************************************************************************)
(* Recipe search API (mu6m/emeal-api): the query builders of the REST,     *)
(* RPC (MCP) and chat surfaces, the diet preset table, and the store round *)
(* trip, as one state machine.                                             *)
(*                                                                         *)
(* Text is a sequence of atoms.  An atom is a TLA+ string standing for a   *)
(* run of letters, one digit, one punctuation character, or one fixed SQL  *)
(* literal of the source.  Go's string concatenation is \o.                *)
(***************************************************************************)
EXTENDS Integers, Sequences, FiniteSets, TLC

VARIABLES pc, surface, req, execute, query, sqlArgs, queried, store, resp, dietPlans,
          translator, rpc, reply, handlers

vars ==
    <<pc, surface, req, execute, query, sqlArgs, queried, store, resp, dietPlans, translator,
      rpc, reply, handlers>>

(***************************************************************************)
(* Bounds of the model.                                                    *)
(***************************************************************************)
\* A request populates at most this many parameters.
MaxParams == 2

(***************************************************************************)
(* Strings.                                                                *)
(***************************************************************************)
S(w) == <<w>>

Digits == {"0", "1", "2", "3", "4", "5", "6", "7", "8", "9"}

DigitVal(a) ==
    CASE a = "0" -> 0 [] a = "1" -> 1 [] a = "2" -> 2 [] a = "3" -> 3
      [] a = "4" -> 4 [] a = "5" -> 5 [] a = "6" -> 6 [] a = "7" -> 7
      [] a = "8" -> 8 [] a = "9" -> 9

AllDigits(s) == Len(s) > 0 /\ \A i \in 1..Len(s) : s[i] \in Digits

RECURSIVE Horner(_)
Horner(s) ==
    IF s = <<>> THEN 0
    ELSE 10 * Horner(SubSeq(s, 1, Len(s) - 1)) + DigitVal(s[Len(s)])

RECURSIVE Pow10(_)
Pow10(n) == IF n = 0 THEN 1 ELSE 10 * Pow10(n - 1)

\* A decimal m * 10^-e with no trailing zero in the fraction, so that equal
\* numbers are equal records.
RECURSIVE Normal(_, _)
Normal(m, e) == IF e > 0 /\ m % 10 = 0 THEN Normal(m \div 10, e - 1) ELSE [m |-> m, e |-> e]

Unsigned(s) == IF Len(s) > 0 /\ s[1] \in {"-", "+"} THEN Tail(s) ELSE s

Sign(s) == IF Len(s) > 0 /\ s[1] = "-" THEN -1 ELSE 1

ParseFail == [ok |-> FALSE, m |-> 0, e |-> 0]

\* strconv.Atoi: an optional sign and decimal digits, nothing else.
Atoi(s) ==
    IF AllDigits(Unsigned(s))
    THEN [ok |-> TRUE, m |-> Sign(s) * Horner(Unsigned(s)), e |-> 0]
    ELSE ParseFail

DotAt(s) == IF \E i \in 1..Len(s) : s[i] = "." THEN CHOOSE i \in 1..Len(s) : s[i] = "." ELSE 0

\* strconv.ParseFloat on decimal notation: an optional sign, digits, and at most
\* one point with a digit on at least one side.
ParseFloat(s) ==
    LET u == Unsigned(s)
        d == DotAt(u)
        ip == IF d = 0 THEN u ELSE SubSeq(u, 1, d - 1)
        fp == IF d = 0 THEN <<>> ELSE SubSeq(u, d + 1, Len(u))
    IN  IF /\ Len(ip) + Len(fp) > 0
           /\ \A i \in 1..Len(ip) : ip[i] \in Digits
           /\ \A i \in 1..Len(fp) : fp[i] \in Digits
        THEN LET n == Normal(Sign(s) * (Horner(ip) * Pow10(Len(fp)) + Horner(fp)), Len(fp))
             IN  [ok |-> TRUE, m |-> n.m, e |-> n.e]
        ELSE ParseFail

\* strings.TrimSpace
RECURSIVE TrimLeft(_)
TrimLeft(s) == IF s # <<>> /\ Head(s) = " " THEN TrimLeft(Tail(s)) ELSE s

RECURSIVE TrimRight(_)
TrimRight(s) ==
    IF s # <<>> /\ s[Len(s)] = " " THEN TrimRight(SubSeq(s, 1, Len(s) - 1)) ELSE s

TrimSpace(s) == TrimRight(TrimLeft(s))

\* strings.Split(s, ","): the pieces between the commas, empty pieces included;
\* a string without a comma, the empty string too, is one piece.
RECURSIVE Split(_)
Split(s) ==
    IF \E i \in 1..Len(s) : s[i] = ","
    THEN LET i == CHOOSE j \in 1..Len(s) : s[j] = "," /\ \A k \in 1..(j - 1) : s[k] # ","
         IN  <<SubSeq(s, 1, i - 1)>> \o Split(SubSeq(s, i + 1, Len(s)))
    ELSE <<s>>

(***************************************************************************)
(* Values bound to the placeholders.                                       *)
(***************************************************************************)
StrArg(s) == [t |-> "string", s |-> s, m |-> 0, e |-> 0]
IntArg(n) == [t |-> "int", s |-> <<>>, m |-> n, e |-> 0]
FloatArg(m, e) == [t |-> "float64", s |-> <<>>, m |-> m, e |-> e]

\* "%" + s + "%"
Like(s) == <<"%">> \o s \o <<"%">>

\* query += " " + frag ; args = append(args, a...)
Emit(q, frag, as) == [query |-> q.query \o <<frag>>, args |-> q.args \o as]

(***************************************************************************)
(* The preset table.                                                       *)
(***************************************************************************)
\* sort_by and sort_order of a preset.
SortV(by, order) == ("sort_by" :> by) @@ ("sort_order" :> order)

MeatList == <<"meat", "chicken", "beef", "pork", "fish">>

\* var dietPlans of api/index.go (Filters only; Name and Description are not read
\* by any query builder).
DietPlansApi ==
    [ keto |-> ("max_carbs" :> 20) @@ ("min_fat" :> 15) @@ SortV("fat", "desc"),
      paleo |-> ("exclude_ingredients" :>
                    <<"wheat", "grain", "dairy", "sugar", "legume", "bean">>)
                @@ SortV("protein", "desc"),
      mediterranean |-> ("include_ingredients" :>
                            <<"olive", "fish", "vegetable", "fruit", "nut">>)
                        @@ ("max_sodium" :> 1500) @@ SortV("rating", "desc"),
      vegan |-> ("exclude_ingredients" :>
                    MeatList \o <<"dairy", "milk", "cheese", "egg", "butter">>)
                @@ SortV("fiber", "desc"),
      vegetarian |-> ("exclude_ingredients" :> MeatList \o <<"seafood">>)
                     @@ SortV("protein", "desc"),
      low_carb |-> ("max_carbs" :> 50) @@ SortV("carbs", "asc"),
      high_protein |-> ("min_protein" :> 20) @@ SortV("protein", "desc"),
      low_sodium |-> ("max_sodium" :> 1000) @@ SortV("sodium", "asc"),
      diabetic |-> ("max_carbs" :> 45)
                   @@ ("exclude_ingredients" :> <<"sugar", "honey", "syrup", "candy">>)
                   @@ SortV("carbs", "asc"),
      heart_healthy |-> ("max_sodium" :> 1200) @@ ("min_fiber" :> 5)
                        @@ ("exclude_ingredients" :> <<"fried", "processed">>)
                        @@ SortV("fiber", "desc") ]

\* The chat deployment's table: the same, with "low_sugar" where the API has
\* "diabetic".
DietPlansChat ==
    [k \in (DOMAIN DietPlansApi \ {"diabetic"}) \cup {"low_sugar"} |->
        IF k = "low_sugar" THEN DietPlansApi["diabetic"] ELSE DietPlansApi[k]]

\* The stand-alone MCP deployment's table: the first seven presets.
DietPlansMcp ==
    [k \in {"keto", "paleo", "mediterranean", "vegan", "vegetarian", "low_carb",
            "high_protein"} |-> DietPlansApi[k]]

\* dietPlans[diet] of a deployment's table: a preset name is one word.
HasPlan(table, diet) == Len(diet) = 1 /\ diet[1] \in DOMAIN table
PlanOf(table, diet) == table[diet[1]]

\* Every order in which a range over a Go map can visit the keys ks.
RECURSIVE Perms(_)
Perms(ks) ==
    IF ks = {} THEN {<<>>}
    ELSE UNION {{<<k>> \o p : p \in Perms(ks \ {k})} : k \in ks}

\* The range keys of applyDietFilters and the fragment each one emits.
DietRange ==
    [ max_carbs |-> "AND carbs <= ?", min_carbs |-> "AND carbs >= ?",
      max_calories |-> "AND calories <= ?", min_calories |-> "AND calories >= ?",
      max_protein |-> "AND protein <= ?", min_protein |-> "AND protein >= ?",
      max_fat |-> "AND fat <= ?", min_fat |-> "AND fat >= ?",
      max_fiber |-> "AND fiber <= ?", min_fiber |-> "AND fiber >= ?",
      max_sodium |-> "AND sodium <= ?", min_sodium |-> "AND sodium >= ?" ]

\* for _, ingredient := range ingredients { query += frag; args += "%"+ingredient+"%" }
RECURSIVE EmitEach(_, _, _)
EmitEach(q, frag, l) ==
    IF l = <<>> THEN q
    ELSE EmitEach(Emit(q, frag, <<StrArg(Like(S(Head(l))))>>), frag, Tail(l))

\* The dynamic type of the value the table literal holds under key: what the
\* type assertions of applyDietFilters test.
GoType(key) ==
    CASE key \in {"sort_by", "sort_order"} -> "string"
      [] key \in {"exclude_ingredients", "include_ingredients"} -> "[]string"
      [] OTHER -> "int"

\* One iteration of applyDietFilters' loop, for the key `key`; rangeKeys is the
\* set of range keys the switch has a case for.
DietStep(q, key, value, rangeKeys) ==
    CASE key \in rangeKeys ->
            IF GoType(key) = "int" THEN Emit(q, DietRange[key], <<IntArg(value)>>) ELSE q
      [] key = "exclude_ingredients" ->
            IF GoType(key) = "[]string" THEN EmitEach(q, "AND ingredients NOT LIKE ?", value)
            ELSE q
      [] key = "include_ingredients" ->
            IF GoType(key) = "[]string" THEN EmitEach(q, "AND ingredients LIKE ?", value)
            ELSE q
      [] OTHER -> q

RECURSIVE DietLoop(_, _, _, _)
DietLoop(q, filters, ord, rangeKeys) ==
    IF ord = <<>> THEN q
    ELSE DietLoop(DietStep(q, Head(ord), filters[Head(ord)], rangeKeys),
                  filters, Tail(ord), rangeKeys)

\* applyDietFilters(query, args, filters), the map visited in the order ord.
applyDietFilters(q, filters, ord) == DietLoop(q, filters, ord, DOMAIN DietRange)

\* applyDietFilters of the stand-alone MCP deployment: no case for the fiber keys.
applyDietFiltersMcp(q, filters, ord) ==
    DietLoop(q, filters, ord, DOMAIN DietRange \ {"max_fiber", "min_fiber"})

(***************************************************************************)
(* The store.                                                              *)
(***************************************************************************)
BaseQuery ==
    "SELECT id, name, description, image, prep_time_minutes, cook_time_minutes, total_time_minutes, servings, rating, ingredients, instructions, calories, protein, fat, carbs, fiber, sodium FROM recipes WHERE 1=1"

SearchFrag == "AND (name LIKE ? OR description LIKE ?)"
IncludeFrag == "AND ingredients LIKE ?"
ExcludeFrag == "AND ingredients NOT LIKE ?"

\* The numeric parameters of the REST search, in the order of its if statements:
\* the fragment each emits and the parser applied to its value.
RestNumeric ==
    << [key |-> "min_calories", frag |-> "AND calories >= ?", parse |-> "int"],
       [key |-> "max_calories", frag |-> "AND calories <= ?", parse |-> "int"],
       [key |-> "min_protein", frag |-> "AND protein >= ?", parse |-> "float"],
       [key |-> "max_protein", frag |-> "AND protein <= ?", parse |-> "float"],
       [key |-> "min_fat", frag |-> "AND fat >= ?", parse |-> "float"],
       [key |-> "max_fat", frag |-> "AND fat <= ?", parse |-> "float"],
       [key |-> "min_carbs", frag |-> "AND carbs >= ?", parse |-> "float"],
       [key |-> "max_carbs", frag |-> "AND carbs <= ?", parse |-> "float"],
       [key |-> "min_fiber", frag |-> "AND fiber >= ?", parse |-> "float"],
       [key |-> "max_fiber", frag |-> "AND fiber <= ?", parse |-> "float"],
       [key |-> "min_sodium", frag |-> "AND sodium >= ?", parse |-> "float"],
       [key |-> "max_sodium", frag |-> "AND sodium <= ?", parse |-> "float"],
       [key |-> "min_prep_time", frag |-> "AND prep_time_minutes >= ?", parse |-> "int"],
       [key |-> "max_prep_time", frag |-> "AND prep_time_minutes <= ?", parse |-> "int"],
       [key |-> "min_cook_time", frag |-> "AND cook_time_minutes >= ?", parse |-> "int"],
       [key |-> "max_cook_time", frag |-> "AND cook_time_minutes <= ?", parse |-> "int"],
       [key |-> "min_total_time", frag |-> "AND total_time_minutes >= ?", parse |-> "int"],
       [key |-> "max_total_time", frag |-> "AND total_time_minutes <= ?", parse |-> "int"],
       [key |-> "min_servings", frag |-> "AND servings >= ?", parse |-> "int"],
       [key |-> "max_servings", frag |-> "AND servings <= ?", parse |-> "int"],
       [key |-> "min_rating", frag |-> "AND rating >= ?", parse |-> "float"],
       [key |-> "max_rating", frag |-> "AND rating <= ?", parse |-> "float"] >>

NumericKeys == {RestNumeric[i].key : i \in DOMAIN RestNumeric}
RangeFrags == {RestNumeric[i].frag : i \in DOMAIN RestNumeric}
NumericOf(key) == RestNumeric[CHOOSE i \in DOMAIN RestNumeric : RestNumeric[i].key = key]

\* The number of "?" in one atom of query text.
PlaceholdersIn(tok) ==
    CASE tok = SearchFrag -> 2
      [] tok \in RangeFrags \cup {IncludeFrag, ExcludeFrag} -> 1
      [] OTHER -> 0

RECURSIVE Placeholders(_)
Placeholders(text) ==
    IF text = <<>> THEN 0 ELSE PlaceholdersIn(Head(text)) + Placeholders(Tail(text))

RestLimit == "LIMIT 100"
ToolLimit == "LIMIT 20"

\* The row cap the store reads off the statement; -1 when it has none.
LimitOf(text) ==
    LET last == text[Len(text)]
    IN  CASE last = "LIMIT 100" -> 100
          [] last = "LIMIT 20" -> 20
          [] OTHER -> -1

Min(a, b) == IF a < b THEN a ELSE b

(***************************************************************************)
(* The list columns.  ingredients and instructions are stored as JSON text *)
(* and decoded into the Recipe's []string fields; the Recipe is encoded    *)
(* into the response.  JSON text is a sequence of tokens.                  *)
(***************************************************************************)
\* The string literals of the stored texts and the Go string each denotes.
StringLits == ("\"egg\"" :> "egg") @@ ("\"ham\"" :> "ham") @@ ("\"\"" :> "")

IsScalar(tok) == tok \in DOMAIN StringLits \cup {"null", "1"}

\* The tokens between the brackets are elements separated by commas.
IsElements(body) ==
    \/ body = <<>>
    \/ /\ Len(body) % 2 = 1
       /\ \A i \in 1..Len(body) : IF i % 2 = 1 THEN IsScalar(body[i]) ELSE body[i] = ","

IsArray(raw) ==
    /\ Len(raw) >= 2
    /\ raw[1] = "["
    /\ raw[Len(raw)] = "]"
    /\ IsElements(SubSeq(raw, 2, Len(raw) - 1))

\* json.Valid: one scalar, or an array of scalars.
Valid(raw) == (Len(raw) = 1 /\ IsScalar(raw[1])) \/ IsArray(raw)

\* var recipe Recipe: the zero value of a []string field.
NilSlice == [nil |-> TRUE, items |-> <<>>]

\* json.Unmarshal(raw, &slice): text that is not valid JSON leaves the slice
\* alone; null makes it nil; an array makes it a slice of the array's length, an
\* element that is no string left as ""; any other value leaves it alone.  Each
\* failure is an error, which the callers drop.
Unmarshal(raw, slice) ==
    IF ~Valid(raw) THEN slice
    ELSE IF raw = <<"null">> THEN NilSlice
    ELSE IF IsArray(raw)
         THEN LET n == (Len(raw) - 1) \div 2
              IN  [nil |-> FALSE,
                   items |-> [i \in 1..n |-> IF raw[2 * i] \in DOMAIN StringLits
                                             THEN StringLits[raw[2 * i]] ELSE ""]]
         ELSE slice

\* if ingredientsJSON != "" { json.Unmarshal([]byte(ingredientsJSON), &recipe.Ingredients) }
Hydrate(raw) == IF raw # <<>> THEN Unmarshal(raw, NilSlice) ELSE NilSlice

Quote(str) == CHOOSE lit \in DOMAIN StringLits : StringLits[lit] = str

RECURSIVE Join(_)
Join(items) ==
    IF items = <<>> THEN <<>>
    ELSE IF Len(items) = 1 THEN <<Quote(items[1])>>
    ELSE <<Quote(items[1]), ",">> \o Join(Tail(items))

\* encoding/json on a []string field without omitempty: null for a nil slice.
Marshal(slice) == IF slice.nil THEN <<"null">> ELSE <<"[">> \o Join(slice.items) \o <<"]">>

EggAndHam == <<"[", "\"egg\"", ",", "\"ham\"", "]">>

\* The texts a list column may hold: a list, the empty string, a text cut
\* short, a text that is no JSON, the empty list, null, a bare string, a list
\* with a number in it.
RawTexts ==
    { EggAndHam, <<>>, <<"[", "\"egg\"">>, <<"egg", ",", "ham">>, <<"[", "]">>, <<"null">>,
      <<"\"egg\"">>, <<"[", "1", ",", "\"ham\"", "]">> }

\* What the store may do with one statement: fail, or hold some number of
\* matching rows (none, one more than the tool cap, one more than the REST cap)
\* of which some do not scan into a Recipe; ingredients and instructions are
\* the list columns of the first row that scans.
StoreOutcomes ==
    { [fail |-> TRUE, matching |-> 0, bad |-> 0, ingredients |-> <<>>, instructions |-> <<>>],
      [fail |-> FALSE, matching |-> 0, bad |-> 0, ingredients |-> <<>>, instructions |-> <<>>],
      [fail |-> FALSE, matching |-> 21, bad |-> 1, ingredients |-> EggAndHam,
       instructions |-> <<"[", "]">>],
      [fail |-> FALSE, matching |-> 101, bad |-> 0, ingredients |-> <<>>,
       instructions |-> <<"[", "\"egg\"">>] }

\* db.Query(query, args...): an error when the store fails or when the
\* statement's placeholders and the arguments differ in number (database/sql
\* refuses the call); otherwise the matching rows, cut at the statement's LIMIT.
DbQuery(text, args, out) ==
    LET n == IF LimitOf(text) < 0 THEN out.matching ELSE Min(out.matching, LimitOf(text))
    IN  IF out.fail \/ Placeholders(text) # Len(args)
        THEN [err |-> TRUE, n |-> 0, bad |-> 0, ingredients |-> <<>>, instructions |-> <<>>]
        ELSE [err |-> FALSE, n |-> n, bad |-> Min(out.bad, n),
              ingredients |-> out.ingredients, instructions |-> out.instructions]

\* The statement of the single-recipe lookups.
LookupQuery ==
    "SELECT id, name, description, image, prep_time_minutes, cook_time_minutes, total_time_minutes, servings, rating, ingredients, instructions, calories, protein, fat, carbs, fiber, sodium FROM recipes WHERE id = ?"

\* What the store may do with a lookup: fail, hold no row of that id, hold a
\* row that does not scan, hold a row whose list columns are any two texts.
RowOutcomes ==
    { [fail |-> TRUE, matching |-> 0, bad |-> 0, ingredients |-> <<>>, instructions |-> <<>>],
      [fail |-> FALSE, matching |-> 0, bad |-> 0, ingredients |-> <<>>, instructions |-> <<>>],
      [fail |-> FALSE, matching |-> 1, bad |-> 1, ingredients |-> <<>>, instructions |-> <<>>] }
    \cup { [fail |-> FALSE, matching |-> 1, bad |-> 0, ingredients |-> a, instructions |-> b] :
              a \in RawTexts, b \in RawTexts }

\* No row is reported as any other failure.
QueryRowNoSentinel(out) ==
    IF out.fail \/ out.matching = 0 \/ out.bad > 0 THEN "error" ELSE "nil"

\* err := db.QueryRow(query, id).Scan(...): sql.ErrNoRows when no row matches,
\* another error when the store fails or the row does not scan, else nil.
QueryRow(out) ==
    IF out.fail THEN "error"
    ELSE IF out.matching = 0 THEN "ErrNoRows"
    ELSE IF out.bad > 0 THEN "error"
    ELSE "nil"

(***************************************************************************)
(* Sorting, shared shape of every builder.                                 *)
(***************************************************************************)
ValidSortColumns ==
    {"id", "name", "prep_time_minutes", "cook_time_minutes", "total_time_minutes",
     "servings", "rating", "calories", "protein", "fat", "carbs", "fiber", "sodium"}

\* if validSortColumns[sortBy] { query += " ORDER BY " + sortBy + " DESC" / " ASC" }
\* The direction compared without regard to case.
OrderByFold(q, sortBy, sortOrder, cols) ==
    IF Len(sortBy) = 1 /\ sortBy[1] \in cols
    THEN [q EXCEPT !.query = @ \o <<"ORDER BY">> \o sortBy
                                 \o <<IF sortOrder \in {S("desc"), S("DESC")} THEN "DESC" ELSE "ASC">>]
    ELSE q

OrderBy(q, sortBy, sortOrder, cols) ==
    IF Len(sortBy) = 1 /\ sortBy[1] \in cols
    THEN [q EXCEPT !.query = @ \o <<"ORDER BY">> \o sortBy
                                 \o <<IF sortOrder = S("desc") THEN "DESC" ELSE "ASC">>]
    ELSE q

(***************************************************************************)
(* REST: searchRecipes.                                                    *)
(***************************************************************************)
\* c.Query(key): the value, "" when the key is missing.
Query(r, key) == IF key \in DOMAIN r THEN r[key] ELSE <<>>

\* c.DefaultQuery(key, d): the value when the key is there (empty too), else d.
DefaultQuery(r, key, d) == IF key \in DOMAIN r THEN r[key] ELSE d

\* The orders in which applyDietFilters may visit the preset named by diet.
DietOrders(table, diet) ==
    IF diet # <<>> /\ HasPlan(table, diet) THEN Perms(DOMAIN PlanOf(table, diet)) ELSE {<<>>}

\* A diet that names no preset matches no row.
DietPartStrict(q, table, diet, ord) ==
    IF diet # <<>> /\ HasPlan(table, diet)
    THEN applyDietFilters(q, PlanOf(table, diet), ord)
    ELSE IF diet # <<>> THEN Emit(q, "AND 1=0", <<>>) ELSE q

\* if diet != "" { if plan, exists := dietPlans[diet]; exists { applyDietFilters } }
DietPart(q, table, diet, ord) ==
    IF diet # <<>> /\ HasPlan(table, diet)
    THEN applyDietFilters(q, PlanOf(table, diet), ord)
    ELSE q

\* The search term bound once.
SearchPartOnce(q, search) ==
    IF search # <<>> THEN Emit(q, SearchFrag, <<StrArg(Like(search))>>)
    ELSE q

\* if search != "" { query += " AND (name LIKE ? OR description LIKE ?)"; args += term, term }
SearchPart(q, search) ==
    IF search # <<>> THEN Emit(q, SearchFrag, <<StrArg(Like(search)), StrArg(Like(search))>>)
    ELSE q

\* for _, ingredient := range strings.Split(v, ",") { ... "%"+TrimSpace(ingredient)+"%" }
RECURSIVE EmitTokens(_, _, _)
EmitTokens(q, frag, toks) ==
    IF toks = <<>> THEN q
    ELSE EmitTokens(Emit(q, frag, <<StrArg(Like(TrimSpace(Head(toks))))>>), frag, Tail(toks))

IngredientPart(q, frag, v) == IF v # <<>> THEN EmitTokens(q, frag, Split(v)) ELSE q

NumArg(f, p) == IF f.parse = "int" THEN IntArg(p.m) ELSE FloatArg(p.m, p.e)

RestParse(f, v) == IF f.parse = "int" THEN Atoi(v) ELSE ParseFloat(v)

\* A parse failure read as zero.
RestNumStepZero(q, r, f) ==
    LET v == Query(r, f.key)
        p == RestParse(f, v)
    IN  IF v = <<>> THEN q
        ELSE Emit(q, f.frag, <<NumArg(f, IF p.ok THEN p ELSE [ok |-> TRUE, m |-> 0, e |-> 0])>>)

\* if v := c.Query(key); v != "" { if val, err := parse(v); err == nil { ... } }
RestNumStep(q, r, f) ==
    LET v == Query(r, f.key)
        p == RestParse(f, v)
    IN  IF v # <<>> /\ p.ok THEN Emit(q, f.frag, <<NumArg(f, p)>>) ELSE q

RECURSIVE RestNumLoop(_, _, _)
RestNumLoop(q, r, i) ==
    IF i > Len(RestNumeric) THEN q
    ELSE RestNumLoop(RestNumStep(q, r, RestNumeric[i]), r, i + 1)

Start == [query |-> <<BaseQuery>>, args |-> <<>>]

\* The cap left off the statement.
CapMissing(q, limit) == q

\* query += " LIMIT n"
Cap(q, limit) == [q EXCEPT !.query = @ \o <<limit>>]

\* The preset applied after the caller's constraints.
RestBuildDietLast(r, table, ord) ==
    LET q2 == SearchPart(Start, Query(r, "search"))
        q3 == IngredientPart(q2, IncludeFrag, Query(r, "include_ingredients"))
        q4 == IngredientPart(q3, ExcludeFrag, Query(r, "exclude_ingredients"))
        q5 == RestNumLoop(q4, r, 1)
        q1 == DietPart(q5, table, Query(r, "diet"), ord)
        q6 == OrderBy(q1, DefaultQuery(r, "sort_by", S("id")),
                      DefaultQuery(r, "sort_order", S("asc")), ValidSortColumns)
    IN  Cap(q6, RestLimit)

\* The statement and arguments searchRecipes builds for the parameters r, the
\* preset visited in the order ord.
RestBuild(r, table, ord) ==
    LET q1 == DietPart(Start, table, Query(r, "diet"), ord)
        q2 == SearchPart(q1, Query(r, "search"))
        q3 == IngredientPart(q2, IncludeFrag, Query(r, "include_ingredients"))
        q4 == IngredientPart(q3, ExcludeFrag, Query(r, "exclude_ingredients"))
        q5 == RestNumLoop(q4, r, 1)
        q6 == OrderBy(q5, DefaultQuery(r, "sort_by", S("id")),
                      DefaultQuery(r, "sort_order", S("asc")), ValidSortColumns)
    IN  Cap(q6, RestLimit)

\* The statements searchRecipes may build for r, one for each order in which
\* applyDietFilters may visit the preset.
RestBuilds(r, table) == {RestBuild(r, table, ord) : ord \in DietOrders(table, Query(r, "diet"))}

(***************************************************************************)
(* RPC: mcpSearchRecipes (its twin mcpSearchRecipesJSON builds the same    *)
(* statement) and the stand-alone searchRecipesMCP.                        *)
(***************************************************************************)
\* A JSON value of the arguments object, as encoding/json decodes it.
JStr(s) == [t |-> "string", s |-> s, m |-> 0, e |-> 0]
JNum(m, e) == [t |-> "number", s |-> <<>>, m |-> m, e |-> e]
JNull == [t |-> "null", s |-> <<>>, m |-> 0, e |-> 0]

\* v, ok := args[key].(string); the empty string when the key is missing or
\* holds another type.
ArgString(a, key) == IF key \in DOMAIN a /\ a[key].t = "string" THEN a[key].s ELSE <<>>

\* The filters map of mcpSearchRecipes.
McpFilters ==
    [ search |-> SearchFrag,
      include_ingredients |-> IncludeFrag,
      exclude_ingredients |-> ExcludeFrag,
      min_calories |-> "AND calories >= ?",
      max_calories |-> "AND calories <= ?",
      min_protein |-> "AND protein >= ?",
      max_protein |-> "AND protein <= ?",
      min_carbs |-> "AND carbs >= ?",
      max_carbs |-> "AND carbs <= ?",
      max_prep_time |-> "AND prep_time_minutes <= ?" ]

\* The default case of the switch: a string adds the fragment, and its
\* argument only when it parses; a number adds both.
McpNumStep(q, value, frag) ==
    IF value.t = "string" /\ value.s # <<>>
    THEN LET p == ParseFloat(value.s)
         IN  Emit(q, frag, IF p.ok THEN <<FloatArg(p.m, p.e)>> ELSE <<>>)
    ELSE IF value.t = "number" THEN Emit(q, frag, <<FloatArg(value.m, value.e)>>)
    ELSE q

\* One iteration of the loop over filters, for the key `key`.
McpStep(q, a, key) ==
    IF ~(key \in DOMAIN a /\ a[key].t # "null") THEN q
    ELSE CASE key = "search" ->
                 IF a[key].t = "string" THEN SearchPart(q, a[key].s) ELSE q
           [] key \in {"include_ingredients", "exclude_ingredients"} ->
                 IF a[key].t = "string" THEN IngredientPart(q, McpFilters[key], a[key].s) ELSE q
           [] OTHER -> McpNumStep(q, a[key], McpFilters[key])

RECURSIVE McpLoop(_, _, _)
McpLoop(q, a, ord) ==
    IF ord = <<>> THEN q ELSE McpLoop(McpStep(q, a, Head(ord)), a, Tail(ord))

\* sortBy := "id"; if val, ok := args["sort_by"].(string); ok && val != "" { sortBy = val }
ArgOr(a, key, d) == IF ArgString(a, key) # <<>> THEN ArgString(a, key) ELSE d

\* The statement and arguments mcpSearchRecipes builds for the arguments a, the
\* preset visited in the order dord and the filters map in the order ford.
McpBuild(a, table, dord, ford) ==
    LET q1 == DietPart(Start, table, ArgString(a, "diet"), dord)
        q2 == McpLoop(q1, a, ford)
        q3 == OrderBy(q2, ArgOr(a, "sort_by", S("id")), ArgOr(a, "sort_order", S("asc")),
                      ValidSortColumns)
    IN  Cap(q3, ToolLimit)

\* A range over the filters map visits the keys the call populates in any
\* order; the keys it does not populate emit nothing wherever they fall.
McpOrders(a) == Perms(DOMAIN a \cap DOMAIN McpFilters)

McpBuilds(a, table) ==
    {McpBuild(a, table, dord, ford) :
        dord \in DietOrders(table, ArgString(a, "diet")), ford \in McpOrders(a)}

\* validCols of searchRecipesMCP.
ValidCols == {"id", "name", "rating", "calories", "protein", "carbs"}

\* if val, ok := args[key].(float64); ok { ... }
NativeStep(q, a, key, frag) ==
    IF key \in DOMAIN a /\ a[key].t = "number"
    THEN Emit(q, frag, <<FloatArg(a[key].m, a[key].e)>>)
    ELSE q

DietPartMcp(q, table, diet, ord) ==
    IF diet # <<>> /\ HasPlan(table, diet)
    THEN applyDietFiltersMcp(q, PlanOf(table, diet), ord)
    ELSE q

\* The statement and arguments searchRecipesMCP builds for the arguments a.
StandaloneBuild(a, table, ord) ==
    LET q1 == DietPartMcp(Start, table, ArgString(a, "diet"), ord)
        q2 == SearchPart(q1, ArgString(a, "search"))
        q3 == IngredientPart(q2, IncludeFrag, ArgString(a, "include_ingredients"))
        q4 == IngredientPart(q3, ExcludeFrag, ArgString(a, "exclude_ingredients"))
        q5 == NativeStep(q4, a, "max_calories", "AND calories <= ?")
        q6 == NativeStep(q5, a, "min_protein", "AND protein >= ?")
        q7 == NativeStep(q6, a, "max_carbs", "AND carbs <= ?")
        q8 == OrderBy(q7, ArgOr(a, "sort_by", S("id")), ArgOr(a, "sort_order", S("asc")),
                      ValidCols)
    IN  Cap(q8, ToolLimit)

StandaloneBuilds(a, table) ==
    {StandaloneBuild(a, table, ord) : ord \in DietOrders(table, ArgString(a, "diet"))}

(***************************************************************************)
(* Chat: ExecuteSearch on the translator's query string.                   *)
(***************************************************************************)
\* filterMap of ExecuteSearch.
ChatFilters ==
    [ min_calories |-> "AND calories >= ?", max_calories |-> "AND calories <= ?",
      min_protein |-> "AND protein >= ?", max_protein |-> "AND protein <= ?",
      min_carbs |-> "AND carbs >= ?", max_carbs |-> "AND carbs <= ?",
      min_fat |-> "AND fat >= ?", max_fat |-> "AND fat <= ?",
      min_fiber |-> "AND fiber >= ?", max_fiber |-> "AND fiber <= ?",
      min_sodium |-> "AND sodium >= ?", max_sodium |-> "AND sodium <= ?",
      max_prep_time |-> "AND prep_time_minutes <= ?",
      min_prep_time |-> "AND prep_time_minutes >= ?" ]

\* if value := params.Get(param); value != "" { if val, err := ParseFloat(value) ... }
ChatNumStep(q, r, key) ==
    LET v == Query(r, key)
        p == ParseFloat(v)
    IN  IF v # <<>> /\ p.ok THEN Emit(q, ChatFilters[key], <<FloatArg(p.m, p.e)>>) ELSE q

RECURSIVE ChatLoop(_, _, _)
ChatLoop(q, r, ord) ==
    IF ord = <<>> THEN q ELSE ChatLoop(ChatNumStep(q, r, Head(ord)), r, Tail(ord))

\* params.Get(key), with d for the empty string.
GetOr(r, key, d) == IF Query(r, key) # <<>> THEN Query(r, key) ELSE d

\* The statement and arguments ExecuteSearch builds for the parsed parameters r.
ChatBuild(r, table, dord, ford) ==
    LET q1 == DietPart(Start, table, Query(r, "diet"), dord)
        q2 == ChatLoop(q1, r, ford)
        q3 == IngredientPart(q2, IncludeFrag, Query(r, "include_ingredients"))
        q4 == IngredientPart(q3, ExcludeFrag, Query(r, "exclude_ingredients"))
        q5 == SearchPart(q4, Query(r, "search"))
        q6 == OrderBy(q5, GetOr(r, "sort_by", S("id")), GetOr(r, "sort_order", S("asc")),
                      ValidSortColumns)
    IN  Cap(q6, ToolLimit)

ChatOrders(r) == Perms(DOMAIN r \cap DOMAIN ChatFilters)

ChatBuilds(r, table) ==
    {ChatBuild(r, table, dord, ford) :
        dord \in DietOrders(table, Query(r, "diet")), ford \in ChatOrders(r)}

(***************************************************************************)
(* Requests.                                                               *)
(***************************************************************************)
Keys == NumericKeys \cup {"diet", "search", "include_ingredients", "exclude_ingredients",
                          "sort_by", "sort_order"}

IntKeys == {RestNumeric[i].key : i \in {j \in DOMAIN RestNumeric : RestNumeric[j].parse = "int"}}

Twenty == <<"2", "0">>
OneAndHalf == <<"1", ".", "5">>

DietTexts ==
    {S(d) : d \in {"keto", "low_carb", "vegan", "mediterranean", "heart_healthy", "low_sodium",
                   "diabetic", "low_sugar", "atkins"}}

SortByTexts == {S(c) : c \in ValidSortColumns \cup {"1=1;DROP TABLE recipes", "FAT"}} \cup {<<>>}

\* The values a caller may give the parameter key, as text: for a numeric
\* parameter one that its parser accepts and one that it rejects; a search term
\* that is empty; an ingredient list whose last token is blank ("egg, ").
TextsOf(key) ==
    CASE key \in IntKeys -> {Twenty, OneAndHalf}
      [] key \in NumericKeys \ IntKeys -> {OneAndHalf, S("abc")}
      [] key = "diet" -> DietTexts
      [] key = "search" -> {S("soup"), <<"'", " ", "OR", " ", "1=1">>, <<>>}
      [] key \in {"include_ingredients", "exclude_ingredients"} ->
            {S("tofu"), <<"egg", ",", " ", "ham">>, <<"egg", ",", " ">>}
      [] key = "sort_by" -> SortByTexts
      [] key = "sort_order" -> {S("desc"), S("asc"), S("DESC"), <<"desc", ";", "--">>, <<>>}

\* The JSON values an RPC caller may give the argument key: each text as a
\* string, and for a numeric argument a number and a string that is no number.
JsonOf(key) ==
    {JStr(s) : s \in TextsOf(key)} \cup
    (IF key \in NumericKeys THEN {JNum(20, 0), JStr(S("abc"))} ELSE {})

RECURSIVE SubsetsUpTo(_, _)
SubsetsUpTo(K, n) ==
    IF n = 0 THEN {{}}
    ELSE LET P == SubsetsUpTo(K, n - 1) IN P \cup {p \cup {k} : p \in P, k \in K}

\* Every map with the keys ks whose value at k is one of V[k].
RECURSIVE MapsOver(_, _)
MapsOver(ks, V) ==
    IF ks = {} THEN {<<>>}
    ELSE LET k == CHOOSE x \in ks : TRUE
         IN  {(k :> v) @@ m : v \in V[k], m \in MapsOver(ks \ {k}, V)}

\* Query strings (REST, and what the translator may generate for chat).
RestRequests ==
    UNION {MapsOver(ks, [k \in Keys |-> TextsOf(k)]) : ks \in SubsetsUpTo(Keys, MaxParams)}

\* Arguments objects of a tools/call.
RpcRequests ==
    UNION {MapsOver(ks, [k \in Keys |-> JsonOf(k)]) : ks \in SubsetsUpTo(Keys, MaxParams)}

\* How GenerateRecipeURL may fail: the transport (client.Do), or a body that
\* leaves Choices empty: one that does not decode (the decoder's error is
\* dropped) or one that holds no choice.
TranslatorFailures == {"transport", "malformed", "nochoices"}

\* What the call to the translator may come to: a failure, a choice whose
\* content is empty or blank, a choice whose content is a query string.
TranslatorOutcomes == TranslatorFailures \cup {"empty", "url"}

\* The query strings GenerateRecipeURL returns for a choice: content trimmed, "?"
\* put in front when missing; blank content gives "?", a string of no parameters.
GeneratedURLs(o) == IF o = "empty" THEN {<<>>} ELSE RestRequests

NoCall == [calls |-> 0, outcome |-> "none"]

\* The values a caller may give the execute parameter of the chat; none when
\* it is missing.
ExecuteTexts == {S("true"), S("false"), <<>>}

\* Any value of the parameter sets the flag.
FlagAny(x) == x # <<>>

\* c.Query("execute") == "true"
Flag(x) == x = S("true")

(***************************************************************************)
(* JSON-RPC: the request envelope and the response envelope.               *)
(***************************************************************************)
\* MCPRequest as decoded: the id, the method, whether params is missing, an
\* object or another value, and of a params object the name (none when missing
\* or no string), whether arguments is an object, and the uri.
Envelope(id, method, params, name, arguments, uri) ==
    [id |-> id, method |-> method, params |-> params, name |-> name,
     arguments |-> arguments, uri |-> uri]

\* The request is no JSON-RPC request.
NoRpc == Envelope(0, "none", "missing", "", "missing", "")

\* A body that ShouldBindJSON rejects: nothing of it is decoded.
Unparsable == Envelope(0, "unparsable", "missing", "", "missing", "")

\* The ids callers use.
Ids == {1, 2}

Methods == {"initialize", "tools/list", "tools/call", "resources/list", "resources/read", "ping"}

Tools == {"search_recipes", "get_recipe", "get_diet_plans", "bogus"}

\* The envelopes that bind.
Envelopes ==
    {Envelope(i, m, p, "", "missing", "") : i \in Ids, m \in Methods, p \in {"missing", "array"}}
    \cup {Envelope(i, m, "object", n, a, u) :
              i \in Ids, m \in Methods, n \in Tools \cup {""}, a \in {"missing", "object"},
              u \in {"", "recipe://diet-plans", "recipe://x"}}

\* A tools/call of the tool name with an arguments object.
ToolCall(id, name) == Envelope(id, "tools/call", "object", name, "object", "")

\* MCPResponse.ID and MCPError.Code of the response; zero without them.
NoReply == [id |-> 0, code |-> 0]

\* The handler's answer: a panic that nothing recovers (no response is
\* written), or the status with the member of the envelope, what it holds, and
\* the error code.
Panic == [status |-> 0, envelope |-> "none", kind |-> "panic", code |-> 0]
Ok(kind) == [status |-> 200, envelope |-> "result", kind |-> kind, code |-> 0]
Err(code, kind) == [status |-> 200, envelope |-> "error", kind |-> kind, code |-> code]

\* handleMCPToolCall but for search_recipes and get_recipe.
handleMCPToolCall(e) ==
    IF e.params # "object" THEN Err(-32602, "Invalid params")
    ELSE IF e.name = "get_diet_plans" THEN Ok("diet_plans")
    ELSE Err(-32601, "Tool not found")

\* handleMCPResourcesRead
handleMCPResourcesRead(e) ==
    IF e.params # "object" THEN Err(-32602, "Invalid params")
    ELSE IF e.uri = "recipe://diet-plans" THEN Ok("contents")
    ELSE Err(-32601, "Resource not found")

\* handleMCPRequest: the switch on req.Method.
handleMCPRequest(e) ==
    CASE e.method = "initialize" -> Ok("initialize")
      [] e.method = "tools/list" -> Ok("tools")
      [] e.method = "tools/call" -> handleMCPToolCall(e)
      [] e.method = "resources/list" -> Ok("resources")
      [] e.method = "resources/read" -> handleMCPResourcesRead(e)
      [] OTHER -> Err(-32601, "Method not found")

\* handleMCP of the stand-alone deployment: the switch on req.Method; in
\* tools/call the three type assertions have no ok and panic on a missing or
\* different value, and any tool but search_recipes and get_recipe is not found.
handleMCP(e) ==
    CASE e.method = "initialize" -> Ok("initialize")
      [] e.method = "tools/list" -> Ok("tools")
      [] e.method = "tools/call" ->
            IF e.params # "object" \/ e.name = "" \/ e.arguments # "object" THEN Panic
            ELSE Err(-32601, "Tool not found")
      [] OTHER -> Err(-32601, "Method not found")

\* No statement has reached the store in this request.
NoStore == [fail |-> FALSE, matching |-> 0, bad |-> 0, ingredients |-> <<>>, instructions |-> <<>>]

\* A response: the HTTP status, the member of the JSON-RPC envelope that holds
\* the body (none outside JSON-RPC), what the body is, the number of elements
\* of its recipes, the count it states, and the list fields of the first
\* Recipe in it as encoded (no text without one).
Body(status, envelope, kind, count) ==
    [status |-> status, envelope |-> envelope, kind |-> kind, recipes |-> 0, count |-> count,
     ingredients |-> <<>>, instructions |-> <<>>]

NoResp == Body(0, "none", "none", 0)

HttpError(status) == Body(status, "none", "error", 0)

\* The count is the number of rows the store returned.
CountRead(recipes, res) == res.n

\* "count": len(recipes)
Count(recipes, res) == recipes

\* The body holds the recipes appended, hydrated from the rows of res, and
\* their count.
WithRecipes(status, envelope, kind, recipes, res) ==
    [status |-> status, envelope |-> envelope, kind |-> kind, recipes |-> recipes,
     count |-> Count(recipes, res),
     ingredients |-> IF recipes > 0 THEN Marshal(Hydrate(res.ingredients)) ELSE <<>>,
     instructions |-> IF recipes > 0 THEN Marshal(Hydrate(res.instructions)) ELSE <<>>]

\* The rows a handler appends: those that scan, when it skips the others.
Recipes(res, skipsBadRows) == IF skipsBadRows THEN res.n - res.bad ELSE res.n

(***************************************************************************)
(* The state machine: a request is handled to its response, and the        *)
(* response is delivered.                                                  *)
(***************************************************************************)
\* The requests that arrive together at Handler.
MaxWorkers == 3
Workers == 1..MaxWorkers

\* var db and the requests in Handler: the handle db holds (0 is nil, the n-th
\* handle opened is n), the number of sql.Open calls, each request's place in
\* Handler and the handle it has seen and last used (0: none).
Handlers(db, opened, at, used) == [db |-> db, opened |-> opened, at |-> at, used |-> used]

\* A cold start: db is nil and the requests enter Handler.
Cold == Handlers(0, 0, [w \in Workers |-> "Handler"], [w \in Workers |-> 0])

\* A warm process: an earlier request opened the handle.
Warm == Handlers(1, 1, [w \in Workers |-> "done"], [w \in Workers |-> 0])

\* No request is being handled.
Idle ==
    /\ pc = "idle"
    /\ surface = "none"
    /\ req = <<>>
    /\ execute = <<>>
    /\ query = <<>>
    /\ sqlArgs = <<>>
    /\ queried = 0
    /\ store = NoStore
    /\ resp = NoResp
    /\ dietPlans = [api |-> DietPlansApi, chat |-> DietPlansChat, mcp |-> DietPlansMcp]
    /\ translator = NoCall
    /\ rpc = NoRpc
    /\ reply = NoReply

\* The process has served before: the handle exists.
Init == Idle /\ handlers = Warm

RestResponse(res) ==
    IF res.err THEN HttpError(500)
    ELSE WithRecipes(200, "none", "recipes", Recipes(res, TRUE), res)

\* The text mcpSearchRecipes returns goes into a result envelope, the error
\* text too.
ToolResponse(res) ==
    IF res.err
    THEN Body(200, "result", "error", 0)
    ELSE WithRecipes(200, "result", "recipes", Recipes(res, TRUE), res)

\* searchRecipesMCP appends a row whether or not it scanned.
StandaloneResponse(res) ==
    IF res.err
    THEN Body(200, "result", "error", 0)
    ELSE WithRecipes(200, "result", "recipes", Recipes(res, FALSE), res)

\* ExecuteSearch's error becomes handleChat's 500.
ChatResponse(res) ==
    IF res.err THEN HttpError(500)
    ELSE WithRecipes(200, "none", "recipes", Recipes(res, TRUE), res)

\* The recipe the lookups hydrate from the row of out.
Found(out) == [n |-> 1, ingredients |-> out.ingredients, instructions |-> out.instructions]

\* getRecipeByID after the scan: 404, 500, or the recipe.
RecipeResponse(out) ==
    CASE QueryRow(out) = "ErrNoRows" -> Body(404, "none", "notfound", 0)
      [] QueryRow(out) = "error" -> HttpError(500)
      [] OTHER -> WithRecipes(200, "none", "recipe", 1, Found(out))

\* The text mcpGetRecipe and getRecipeMCP return, which the caller puts into a
\* result envelope: "Recipe ... not found", "Error ...", or the recipe encoded.
RecipeText(out) ==
    CASE QueryRow(out) = "ErrNoRows" -> Body(200, "result", "notfound", 0)
      [] QueryRow(out) = "error" -> Body(200, "result", "error", 0)
      [] OTHER -> WithRecipes(200, "result", "recipe", 1, Found(out))

\* The response of the lookup surface s to the store's answer out.
LookupResponse(s, out) ==
    IF s = "getRecipeByID" THEN RecipeResponse(out) ELSE RecipeText(out)

\* The response of the surface s to the store's answer res.
Respond(s, res) ==
    CASE s = "searchRecipes" -> RestResponse(res)
      [] s = "mcpSearchRecipes" -> ToolResponse(res)
      [] s = "searchRecipesMCP" -> StandaloneResponse(res)
      [] s = "handleChat" -> ChatResponse(res)

\* The handler of the surface s built q and ran it, and ran it once more when
\* the store failed.
RunQueryAgain(q, s) ==
    \E out \in StoreOutcomes :
        /\ query' = q.query
        /\ sqlArgs' = q.args
        /\ queried' = queried + (IF out.fail THEN 2 ELSE 1)
        /\ store' = out
        /\ resp' = Respond(s, DbQuery(q.query, q.args, out))

\* The handler of the surface s built q and ran it: db.Query(query, args...),
\* the rows loop, and the response.
RunQuery(q, s) ==
    \E out \in StoreOutcomes :
        /\ query' = q.query
        /\ sqlArgs' = q.args
        /\ queried' = queried + 1
        /\ store' = out
        /\ resp' = Respond(s, DbQuery(q.query, q.args, out))

\* A tools/call of the tool name is answered in a result envelope:
\* c.JSON(200, MCPResponse{ID: req.ID, Result: ...}).
Called(i, name) ==
    /\ rpc' = ToolCall(i, name)
    /\ reply' = [id |-> i, code |-> 0]

\* searchRecipes(c)
SearchRecipes ==
    /\ pc = "idle"
    /\ \E r \in RestRequests :
        /\ req' = r
        /\ \E q \in RestBuilds(r, dietPlans.api) : RunQuery(q, "searchRecipes")
    /\ surface' = "searchRecipes"
    /\ pc' = "responded"
    /\ UNCHANGED <<execute, dietPlans, handlers, translator, rpc, reply>>

\* handleMCPToolCall, case "search_recipes": mcpSearchRecipes(arguments)
McpSearchRecipes ==
    /\ pc = "idle"
    /\ \E a \in RpcRequests :
        /\ req' = a
        /\ \E q \in McpBuilds(a, dietPlans.api) : RunQuery(q, "mcpSearchRecipes")
    /\ \E i \in Ids : Called(i, "search_recipes")
    /\ surface' = "mcpSearchRecipes"
    /\ pc' = "responded"
    /\ UNCHANGED <<execute, dietPlans, handlers, translator>>

\* handleMCP, case "tools/call", "search_recipes": searchRecipesMCP(args)
SearchRecipesMCP ==
    /\ pc = "idle"
    /\ \E a \in RpcRequests :
        /\ req' = a
        /\ \E q \in StandaloneBuilds(a, dietPlans.mcp) : RunQuery(q, "searchRecipesMCP")
    /\ \E i \in Ids : Called(i, "search_recipes")
    /\ surface' = "searchRecipesMCP"
    /\ pc' = "responded"
    /\ UNCHANGED <<execute, dietPlans, handlers, translator>>

\* The id a caller may put in the path: a number, and two texts Atoi rejects.
IdTexts == {S("7"), OneAndHalf, S("abc")}

\* The arguments of a get_recipe call: id a JSON number (whole or not), id a
\* string, no id.
IdArguments ==
    {("id" :> v) : v \in {JNum(7, 0), JNum(15, 1), JStr(S("7"))}} \cup {<<>>}

\* int(id) of a float64: the fraction is dropped.
Trunc(v) == v.m \div Pow10(v.e)

\* The lookup of the surface s ran for the id n.
RunLookup(n, s) ==
    \E out \in RowOutcomes :
        /\ query' = <<LookupQuery>>
        /\ sqlArgs' = <<IntArg(n)>>
        /\ queried' = queried + 1
        /\ store' = out
        /\ resp' = LookupResponse(s, out)

\* getRecipeByID(c)
GetRecipeByID ==
    /\ pc = "idle"
    /\ \E v \in IdTexts :
        /\ req' = ("id" :> v)
        /\ IF Atoi(v).ok
           THEN RunLookup(Atoi(v).m, "getRecipeByID")
           ELSE /\ resp' = HttpError(400)
                /\ UNCHANGED <<query, sqlArgs, queried, store>>
    /\ surface' = "getRecipeByID"
    /\ pc' = "responded"
    /\ UNCHANGED <<execute, dietPlans, handlers, translator, rpc, reply>>

\* id, ok := arguments["id"].(float64): the lookup of the surface s when ok,
\* else the error -32602 in an error envelope.
GetRecipeCall(a, s) ==
    /\ req' = a
    /\ \E i \in Ids :
        /\ rpc' = ToolCall(i, "get_recipe")
        /\ IF "id" \in DOMAIN a /\ a["id"].t = "number"
           THEN /\ RunLookup(Trunc(a["id"]), s)
                /\ reply' = [id |-> i, code |-> 0]
           ELSE /\ resp' = Body(200, "error", "invalid", 0)
                /\ reply' = [id |-> i, code |-> -32602]
                /\ UNCHANGED <<query, sqlArgs, queried, store>>
    /\ surface' = s
    /\ pc' = "responded"
    /\ UNCHANGED <<execute, dietPlans, handlers, translator>>

\* handleMCPToolCall, case "get_recipe": mcpGetRecipe(int(id))
McpGetRecipe == pc = "idle" /\ \E a \in IdArguments : GetRecipeCall(a, "mcpGetRecipe")

\* handleMCP, case "tools/call", "get_recipe": getRecipeMCP(int(id))
GetRecipeMCP == pc = "idle" /\ \E a \in IdArguments : GetRecipeCall(a, "getRecipeMCP")

\* handleChat(c): the body is bound (400 when it does not bind), GenerateRecipeURL
\* is called once, then ExecuteSearch when execute=true.
HandleChat ==
    /\ pc = "idle"
    /\ \E x \in ExecuteTexts :
        /\ execute' = x
        /\ \/ /\ translator' = NoCall
              /\ req' = <<>>
              /\ resp' = HttpError(400)
              /\ UNCHANGED <<query, sqlArgs, queried, store>>
           \/ \E o \in TranslatorFailures :
                /\ translator' = [calls |-> translator.calls + 1, outcome |-> o]
                /\ req' = <<>>
                /\ resp' = HttpError(500)
                /\ UNCHANGED <<query, sqlArgs, queried, store>>
           \/ \E o \in TranslatorOutcomes \ TranslatorFailures :
                /\ translator' = [calls |-> translator.calls + 1, outcome |-> o]
                /\ \E r \in GeneratedURLs(o) :
                    /\ req' = r
                    /\ IF Flag(x)
                       THEN \E q \in ChatBuilds(r, dietPlans.chat) : RunQuery(q, "handleChat")
                       ELSE /\ resp' = Body(200, "none", "url", 0)
                            /\ UNCHANGED <<query, sqlArgs, queried, store>>
    /\ surface' = "handleChat"
    /\ pc' = "responded"
    /\ UNCHANGED <<dietPlans, handlers, rpc, reply>>

\* The JSON-RPC endpoint of the deployment s answers the envelope e with ans,
\* no statement run: c.JSON(status, MCPResponse{ID: req.ID, ...}).
Dispatched(s, e, ans) ==
    /\ pc = "idle"
    /\ rpc' = e
    /\ resp' = Body(ans.status, ans.envelope, ans.kind, 0)
    /\ reply' = [id |-> IF ans = Panic THEN 0 ELSE e.id, code |-> ans.code]
    /\ surface' = s
    /\ pc' = "responded"
    /\ req' = <<>>
    /\ UNCHANGED <<execute, query, sqlArgs, queried, store, dietPlans, handlers, translator>>

\* The body does not bind: 400 with the error -32700.
ParseError == [status |-> 400, envelope |-> "error", kind |-> "Parse error", code |-> -32700]

\* handleMCPRequest(c), every request but a tools/call of search_recipes or
\* get_recipe (McpSearchRecipes, McpGetRecipe; arguments that are missing are
\* the empty arguments there).
HandleMCPRequest ==
    \/ Dispatched("handleMCPRequest", Unparsable, ParseError)
    \/ \E e \in Envelopes :
        /\ ~(e.method = "tools/call" /\ e.params = "object"
                /\ e.name \in {"search_recipes", "get_recipe"})
        /\ Dispatched("handleMCPRequest", e, handleMCPRequest(e))

\* handleMCP(c) of the stand-alone deployment, every request but a tools/call
\* of search_recipes or get_recipe with an arguments object (SearchRecipesMCP,
\* GetRecipeMCP).
HandleMCP ==
    \/ Dispatched("handleMCP", Unparsable, ParseError)
    \/ \E e \in Envelopes :
        /\ ~(e.method = "tools/call" /\ e.params = "object" /\ e.arguments = "object"
                /\ e.name \in {"search_recipes", "get_recipe"})
        /\ Dispatched("handleMCP", e, handleMCP(e))

\* getDietPlans(c), were the preset it lists first taken out of the table.
GetDietPlansTaking ==
    /\ pc = "idle"
    /\ resp' = Body(200, "none", "diet_plans", 0)
    /\ surface' = "getDietPlans"
    /\ pc' = "responded"
    /\ req' = <<>>
    /\ dietPlans' = [dietPlans EXCEPT !.api = [d \in DOMAIN dietPlans.api \ {"keto"} |-> dietPlans.api[d]]]
    /\ UNCHANGED <<execute, query, sqlArgs, queried, store, translator, rpc, reply, handlers>>

\* getDietPlans(c)
GetDietPlans ==
    /\ pc = "idle"
    /\ resp' = Body(200, "none", "diet_plans", 0)
    /\ surface' = "getDietPlans"
    /\ pc' = "responded"
    /\ req' = <<>>
    /\ UNCHANGED <<execute, query, sqlArgs, queried, store, dietPlans, handlers, translator, rpc, reply>>

\* The response is written and the handler's locals are gone.
Return ==
    /\ pc = "responded"
    /\ pc' = "idle"
    /\ surface' = "none"
    /\ req' = <<>>
    /\ execute' = <<>>
    /\ query' = <<>>
    /\ sqlArgs' = <<>>
    /\ queried' = 0
    /\ store' = NoStore
    /\ resp' = NoResp
    /\ translator' = NoCall
    /\ rpc' = NoRpc
    /\ reply' = NoReply
    /\ UNCHANGED <<dietPlans, handlers>>

Next ==
    \/ McpSearchRecipes
    \/ SearchRecipesMCP
    \/ McpGetRecipe
    \/ GetRecipeMCP
    \/ HandleMCPRequest
    \/ HandleMCP
    \/ SearchRecipes
    \/ GetRecipeByID
    \/ GetDietPlans
    \/ HandleChat
    \/ Return

Spec == Init /\ [][Next]_vars

(***************************************************************************)
(* Handler on a cold start: requests that arrive together, each in its own *)
(* goroutine, before the store handle exists.  Nothing orders one          *)
(* request's read of db with another's write of it: a read returns a       *)
(* handle written so far and not older than the one the request saw        *)
(* before, or nil when the request has seen none.                          *)
(***************************************************************************)
\* Handler's own steps leave the requests' state alone.
InHandler ==
    UNCHANGED <<pc, surface, req, execute, query, sqlArgs, queried, store, resp, dietPlans,
                translator, rpc, reply>>

\* What the request w may read from db.
Reads(w) == handlers.used[w]..handlers.opened

\* if db == nil
Check(w) ==
    /\ handlers.at[w] = "Handler"
    /\ \E h \in Reads(w) :
        handlers' = [handlers EXCEPT !.at[w] = IF h = 0 THEN "initDB" ELSE "ServeHTTP",
                                     !.used[w] = h]
    /\ InHandler

\* initDB(): db, err = sql.Open("mysql", dsn)
InitDB(w) ==
    /\ handlers.at[w] = "initDB"
    /\ handlers' = [handlers EXCEPT !.opened = @ + 1, !.db = handlers.opened + 1,
                                    !.at[w] = "ServeHTTP", !.used[w] = handlers.opened + 1]
    /\ InHandler

\* router.ServeHTTP(w, r): the route's handler reads db for its query.
ServeHTTP(w) ==
    /\ handlers.at[w] = "ServeHTTP"
    /\ \E h \in Reads(w) :
        handlers' = [handlers EXCEPT !.at[w] = "done", !.used[w] = h]
    /\ InHandler

NextHandler ==
    \E w \in Workers :
        \/ Check(w)
        \/ InitDB(w)
        \/ ServeHTTP(w)

\* The process has served nothing yet.
InitHandler == Idle /\ handlers = Cold

SpecHandler == InitHandler /\ [][NextHandler]_vars

(***************************************************************************)
(* Vocabulary of the properties.                                           *)
(***************************************************************************)
RpcSurfaces == {"mcpSearchRecipes", "searchRecipesMCP"}

SearchSurfaces == {"searchRecipes", "mcpSearchRecipes", "searchRecipesMCP", "handleChat"}

LookupSurfaces == {"getRecipeByID", "mcpGetRecipe", "getRecipeMCP"}

\* A search has responded, and it ran a statement on the way.
Executed == pc = "responded" /\ queried > 0 /\ surface \in SearchSurfaces

\* A lookup has responded, and it ran its statement on the way.
Looked == pc = "responded" /\ queried > 0 /\ surface \in LookupSurfaces

Built == [query |-> query, args |-> sqlArgs]

\* The statements the handler of surface s may build for the request r.
BuildsOf(s, r) ==
    CASE s = "searchRecipes" -> RestBuilds(r, dietPlans.api)
      [] s = "mcpSearchRecipes" -> McpBuilds(r, dietPlans.api)
      [] s = "searchRecipesMCP" -> StandaloneBuilds(r, dietPlans.mcp)
      [] s = "handleChat" -> ChatBuilds(r, dietPlans.chat)

TableOf(s) ==
    CASE s \in {"searchRecipes", "mcpSearchRecipes"} -> dietPlans.api
      [] s = "searchRecipesMCP" -> dietPlans.mcp
      [] s = "handleChat" -> dietPlans.chat

\* The text the caller gave for a parameter; none for a JSON value that is no
\* string.
TextOf(s, v) == IF s \in RpcSurfaces THEN (IF v.t = "string" THEN v.s ELSE <<>>) ELSE v

TextAt(s, r, key) == IF key \in DOMAIN r THEN TextOf(s, r[key]) ELSE <<>>

\* s is not empty and is a contiguous part of text.
Occurs(s, text) ==
    /\ s # <<>>
    /\ \E i \in 1..(Len(text) - Len(s) + 1) : SubSeq(text, i, i + Len(s) - 1) = s

Range(f) == {f[i] : i \in DOMAIN f}

CountOf(tok, text) == Cardinality({i \in DOMAIN text : text[i] = tok})

Without(r, ks) == [k \in DOMAIN r \ ks |-> r[k]]

\* The parameters whose values are data: search text, ingredient lists, bounds.
ValueKeys == NumericKeys \cup {"search", "include_ingredients", "exclude_ingredients"}

\* Whether the surface's parser takes the text as a number for the key.
TakesNumber(s, key, text) ==
    IF s = "searchRecipes" THEN RestParse(NumericOf(key), text).ok ELSE ParseFloat(text).ok

\* Two values of one parameter that differ in content only: the same JSON
\* type, as many ingredient tokens, and both numbers or both not.
SameForm(s, key, v, w) ==
    /\ s \in RpcSurfaces => v.t = w.t
    /\ key \in {"include_ingredients", "exclude_ingredients"} =>
            Len(Split(TextOf(s, v))) = Len(Split(TextOf(s, w)))
    /\ key \in NumericKeys =>
            TakesNumber(s, key, TextOf(s, v)) = TakesNumber(s, key, TextOf(s, w))

ValuesOf(s, key) == IF s \in RpcSurfaces THEN JsonOf(key) ELSE TextsOf(key)

\* The requests that differ from r in the content of data values only.
Variants(s, r) ==
    {r2 \in MapsOver(DOMAIN r, [k \in Keys |-> ValuesOf(s, k)]) :
        \A k \in DOMAIN r : IF k \in ValueKeys THEN SameForm(s, k, r[k], r2[k]) ELSE r2[k] = r[k]}

(***************************************************************************)
(* C1.  For every search operation and any two requests that differ only   *)
(* in the content of caller-supplied values (search text, ingredient       *)
(* tokens, numeric bounds), populating the same parameters with as many    *)
(* ingredient tokens, the generated query text is identical, and the       *)
(* caller's values occur in the argument list only, never in the text.     *)
(***************************************************************************)
C1_QueryTextIndependentOfValues ==
    Executed =>
        /\ \A r2 \in Variants(surface, req) :
                \A q2 \in BuildsOf(surface, r2) : q2.query = query
        /\ \A k \in DOMAIN req \cap ValueKeys : ~Occurs(TextOf(surface, req[k]), query)

(***************************************************************************)
(* C2.  On every search surface: a sort_by that is one of the thirteen     *)
(* fixed column names puts ORDER BY and exactly that column in the query;  *)
(* any other sort_by string occurs nowhere in the query text.              *)
(***************************************************************************)
FixedColumns ==
    {"id", "name", "prep_time_minutes", "cook_time_minutes", "total_time_minutes",
     "servings", "rating", "calories", "protein", "fat", "carbs", "fiber", "sodium"}

C2_SortWhitelistOnEverySurface ==
    LET sb == TextAt(surface, req, "sort_by")
    IN  (Executed /\ sb # <<>>) =>
            IF Len(sb) = 1 /\ sb[1] \in FixedColumns
            THEN Occurs(<<"ORDER BY">> \o sb, query)
            ELSE ~Occurs(sb, query)

(***************************************************************************)
(* C3.  A search that names an existing preset and gives no sort_by is     *)
(* ordered by the preset's default sort: ORDER BY <sort_by> <sort_order>.  *)
(***************************************************************************)
Direction(order) == IF order = "desc" THEN "DESC" ELSE "ASC"

C3_PresetDefaultSort ==
    LET diet == TextAt(surface, req, "diet")
    IN  (Executed /\ diet # <<>> /\ HasPlan(TableOf(surface), diet) /\ "sort_by" \notin DOMAIN req) =>
            LET plan == PlanOf(TableOf(surface), diet)
            IN  Occurs(<<"ORDER BY", plan["sort_by"], Direction(plan["sort_order"])>>, query)

(***************************************************************************)
(* C4.  A REST search with diet=keto and nothing else builds the query     *)
(* text and argument list of a search without diet and with max_carbs=20,  *)
(* min_fat=15, sort_by=fat, sort_order=desc.                               *)
(***************************************************************************)
KetoAlone == [diet |-> S("keto")]

KetoByHand ==
    [max_carbs |-> <<"2", "0">>, min_fat |-> <<"1", "5">>, sort_by |-> S("fat"),
     sort_order |-> S("desc")]

C4_KetoParity ==
    (Executed /\ surface = "searchRecipes" /\ req = KetoAlone) =>
        Built \in RestBuilds(KetoByHand, dietPlans.api)

(***************************************************************************)
(* C5.  A REST search with diet=vegan and include_ingredients=tofu has     *)
(* exactly ten 'ingredients NOT LIKE ?' fragments and exactly one          *)
(* 'ingredients LIKE ?' fragment, whose argument is %tofu%, is ordered by  *)
(* fiber descending, and ends with LIMIT 100.                              *)
(***************************************************************************)
VeganTofu == [diet |-> S("vegan"), include_ingredients |-> S("tofu")]

C5_VeganTofuScenario ==
    (Executed /\ surface = "searchRecipes" /\ req = VeganTofu) =>
        /\ CountOf("AND ingredients NOT LIKE ?", query) = 10
        /\ CountOf("AND ingredients LIKE ?", query) = 1
        /\ Cardinality({i \in DOMAIN sqlArgs : sqlArgs[i] = StrArg(<<"%", "tofu", "%">>)}) = 1
        /\ Len(query) >= 4
        /\ SubSeq(query, Len(query) - 3, Len(query)) = <<"ORDER BY", "fiber", "DESC", "LIMIT 100">>

(***************************************************************************)
(* C6.  On the REST search a numeric parameter whose value fails numeric   *)
(* parsing adds no fragment and no argument, is not read as zero, and the  *)
(* request still runs its query and succeeds: the statement and arguments  *)
(* are those of the request without that parameter, and the response is a  *)
(* success unless the store itself failed.                                 *)
(***************************************************************************)
RestRejected(r) ==
    {k \in DOMAIN r \cap NumericKeys : r[k] # <<>> /\ ~RestParse(NumericOf(k), r[k]).ok}

C6_RestUnparseableNumberIgnored ==
    (pc = "responded" /\ surface = "searchRecipes" /\ RestRejected(req) # {}) =>
        /\ queried = 1
        /\ Built \in RestBuilds(Without(req, RestRejected(req)), dietPlans.api)
        /\ ~store.fail => (resp.status = 200 /\ resp.kind = "recipes")

\* An unparseable bound next to a parsed one: the request succeeded and rows
\* came back.
C6_Witness ==
    /\ pc = "responded" /\ surface = "searchRecipes"
    /\ RestRejected(req) # {}
    /\ DOMAIN req \cap NumericKeys # RestRejected(req)
    /\ resp.status = 200 /\ resp.count > 0

(***************************************************************************)
(* C7.  On the RPC search tool a numeric argument given as a string that   *)
(* is no number is silently omitted: it adds no fragment and no argument,  *)
(* and the call does not end in an error.                                  *)
(***************************************************************************)
RpcRejected(a) ==
    {k \in DOMAIN a \cap NumericKeys :
        a[k].t = "string" /\ a[k].s # <<>> /\ ~ParseFloat(a[k].s).ok}

C7_RpcNonNumericStringOmitted ==
    (pc = "responded" /\ surface \in RpcSurfaces /\ RpcRejected(req) # {}) =>
        /\ Built \in BuildsOf(surface, Without(req, RpcRejected(req)))
        /\ ~store.fail => resp.kind = "recipes"

(***************************************************************************)
(* C8.  On the RPC search tool a numeric filter argument is accepted as a  *)
(* native number and as a numeric string alike: both forms emit the same   *)
(* fragment with the same numeric argument.                                *)
(***************************************************************************)
\* The numeric arguments each RPC search tool reads.
ToolNumeric(s) ==
    IF s = "mcpSearchRecipes"
    THEN DOMAIN McpFilters \ {"search", "include_ingredients", "exclude_ingredients"}
    ELSE {"max_calories", "min_protein", "max_carbs"}

AsNative(v) == JNum(ParseFloat(v.s).m, ParseFloat(v.s).e)

C8_RpcNumberOrNumericString ==
    (Executed /\ surface \in RpcSurfaces) =>
        \A k \in DOMAIN req \cap ToolNumeric(surface) :
            (req[k].t = "string" /\ ParseFloat(req[k].s).ok) =>
                /\ Built \in BuildsOf(surface, [req EXCEPT ![k] = AsNative(req[k])])
                /\ \E i \in DOMAIN sqlArgs :
                        sqlArgs[i] = FloatArg(AsNative(req[k]).m, AsNative(req[k]).e)

(***************************************************************************)
(* C9.  The three surfaces recognise the same filter vocabulary: for the   *)
(* filter parameters of a REST search, the RPC search tool and the chat    *)
(* search given the same keys and values emit the same set of predicate    *)
(* fragments and the same arguments.  (Stated for requests that name no    *)
(* preset: the deployments' preset tables are another matter.)             *)
(***************************************************************************)
ToJson(r) == [k \in DOMAIN r |-> JStr(r[k])]

\* The predicate fragments of a statement and the values bound to them, the
\* Go type of a number left aside.
Predicates(q) ==
    [frags |-> {f \in Range(q.query) : PlaceholdersIn(f) > 0},
     args |-> {[s |-> a.s, m |-> a.m, e |-> a.e] : a \in Range(q.args)}]

C9_SameVocabularyOnEverySurface ==
    (Executed /\ surface = "searchRecipes" /\ "diet" \notin DOMAIN req) =>
        \A q2 \in McpBuilds(ToJson(req), dietPlans.api) \cup ChatBuilds(req, dietPlans.chat) :
            Predicates(q2) = Predicates(Built)

(***************************************************************************)
(* C10.  Whatever the filters, the REST query ends with LIMIT 100 and the  *)
(* RPC and chat queries end with LIMIT 20, the query carries no other      *)
(* LIMIT, and the response holds no more recipes than that cap.            *)
(***************************************************************************)
C10_RowCap ==
    Executed =>
        LET rest == surface = "searchRecipes"
        IN  /\ query[Len(query)] = (IF rest THEN "LIMIT 100" ELSE "LIMIT 20")
            /\ CountOf("LIMIT 100", query) + CountOf("LIMIT 20", query) = 1
            /\ resp.count <= (IF rest THEN 100 ELSE 20)

\* The store matched more rows than the cap and the response holds exactly the
\* cap: on the REST search and on a tool search.
C10_Witness ==
    /\ Executed /\ store.matching > 100
    /\ \/ surface = "searchRecipes" /\ resp.count = 100
       \/ surface = "handleChat" /\ resp.count = 20 /\ DOMAIN req # {}

(***************************************************************************)
(* C11.  The tokens of include_ingredients and exclude_ingredients are     *)
(* trimmed, and a token that is empty after trimming emits no fragment and *)
(* no argument: no argument equal to "%%" ever reaches the store.          *)
(***************************************************************************)
IngredientKeys == {"include_ingredients", "exclude_ingredients"}

\* The tokens of the list text v that are not empty once trimmed.
Tokens(v) ==
    LET t == Split(v)
    IN  {i \in DOMAIN t : TrimSpace(t[i]) # <<>>}

C11_EmptyTokenSkipped ==
    Executed =>
        /\ \A i \in DOMAIN sqlArgs : sqlArgs[i] # StrArg(<<"%", "%">>)
        /\ \A k \in IngredientKeys \cap DOMAIN req :
                "diet" \notin DOMAIN req =>
                    CountOf(IF k = "include_ingredients" THEN IncludeFrag ELSE ExcludeFrag,
                            query) = Cardinality(Tokens(TextOf(surface, req[k])))

(***************************************************************************)
(* C12.  The query built for a request is deterministic: two runs of one   *)
(* search operation on one input build the same query text and the same    *)
(* argument list, the range fragments in one fixed order.                  *)
(***************************************************************************)
C12_BuildDeterministic ==
    Executed => BuildsOf(surface, req) = {Built}

(***************************************************************************)
(* C13.  A search whose sort_by is a string outside the whitelist builds   *)
(* the query text of the same search without sort_by: both fall back to    *)
(* the same ordering by identifier.                                        *)
(***************************************************************************)
C13_AbsentAndInvalidSortAlike ==
    LET sb == TextAt(surface, req, "sort_by")
    IN  (Executed /\ sb # <<>> /\ ~(Len(sb) = 1 /\ sb[1] \in FixedColumns)) =>
            query \in {q.query : q \in BuildsOf(surface, Without(req, {"sort_by"}))}

(***************************************************************************)
(* C14.  On every surface a search term that is not empty adds the         *)
(* fragment '(name LIKE ? OR description LIKE ?)' exactly once and exactly  *)
(* two arguments, both "%term%", to the query of the same request without  *)
(* the term; an empty or absent term adds neither.                         *)
(***************************************************************************)
InsertAt(seq, i, part) == SubSeq(seq, 1, i) \o part \o SubSeq(seq, i + 1, Len(seq))

C14_SearchTermOneFragmentTwoArgs ==
    LET term == TextAt(surface, req, "search")
        rest == BuildsOf(surface, Without(req, {"search"}))
        like == StrArg(Like(term))
    IN  Executed =>
            IF term # <<>>
            THEN /\ CountOf(SearchFrag, query) = 1
                 /\ \E q \in rest :
                        /\ \E i \in 0..Len(q.query) : query = InsertAt(q.query, i, <<SearchFrag>>)
                        /\ \E j \in 0..Len(q.args) : sqlArgs = InsertAt(q.args, j, <<like, like>>)
            ELSE CountOf(SearchFrag, query) = 0 /\ Built \in rest

C14_Witness ==
    /\ Executed
    /\ surface = "handleChat"
    /\ TextAt(surface, req, "search") = S("soup")
    /\ Len(sqlArgs) = 3

(***************************************************************************)
(* C16.  A row whose scan fails is left out of the recipes and of the      *)
(* count, every row that scanned is returned, and the request succeeds.    *)
(***************************************************************************)
Answer == DbQuery(query, sqlArgs, store)

C16_FailedScanLeftOut ==
    (Executed /\ ~Answer.err /\ Answer.bad > 0) =>
        /\ resp.kind = "recipes"
        /\ resp.count = Answer.n - Answer.bad

(***************************************************************************)
(* C17.  A diet that names no preset builds exactly the query and the      *)
(* arguments of the same request without diet, and is no error: the        *)
(* response is an error only where the request without diet has one.       *)
(***************************************************************************)
UnknownDiet ==
    /\ "diet" \in DOMAIN req
    /\ TextAt(surface, req, "diet") # <<>>
    /\ ~HasPlan(TableOf(surface), TextAt(surface, req, "diet"))

C17_UnknownDietIgnored ==
    (Executed /\ UnknownDiet) =>
        /\ Built \in BuildsOf(surface, Without(req, {"diet"}))
        /\ \E q \in BuildsOf(surface, Without(req, {"diet"})) :
                resp = Respond(surface, DbQuery(q.query, q.args, store))

C17_Witness ==
    /\ Executed
    /\ UnknownDiet
    /\ surface = "searchRecipes"
    /\ DOMAIN req = {"diet", "max_carbs"}
    /\ resp.kind = "recipes"
    /\ resp.count > 0

(***************************************************************************)
(* C19.  When the store's query fails every surface reports a service      *)
(* error, not a success: the REST search and the chat an error status, an  *)
(* RPC tools/call an error envelope and no result envelope; the store is   *)
(* not queried a second time.                                              *)
(***************************************************************************)
C19_StoreFailureReported ==
    (Executed /\ Answer.err) =>
        /\ queried = 1
        /\ IF surface \in RpcSurfaces
           THEN resp.envelope = "error"
           ELSE resp.status >= 500

(***************************************************************************)
(* C20.  In chat, when the call to the translator fails or its result is   *)
(* malformed or empty (no choices, or a choice whose content is empty),    *)
(* the chat answers with the translator error, the store is not queried,   *)
(* and the translator was called exactly once.                             *)
(***************************************************************************)
C20_TranslatorFailureStopsChat ==
    (pc = "responded" /\ surface = "handleChat"
        /\ translator.outcome \in TranslatorFailures \cup {"empty"}) =>
            /\ resp = HttpError(500)
            /\ queried = 0
            /\ translator.calls = 1

(***************************************************************************)
(* C15.  A row whose stored ingredients or instructions is the empty       *)
(* string, or a text that fails to decode, is still returned, that field   *)
(* an empty list: not null, not an error.  The field returned is what      *)
(* hydrating the stored text gives, each time.                             *)
(***************************************************************************)
ListFields == {"ingredients", "instructions"}

\* json.Unmarshal of raw into a []string returns no error.
Decodes(raw) ==
    \/ raw = <<"null">>
    \/ IsArray(raw) /\ \A i \in 1..((Len(raw) - 1) \div 2) : raw[2 * i] \in DOMAIN StringLits \cup {"null"}

\* The response holds a recipe made from the row the store returned.
Returned == pc = "responded" /\ resp.kind \in {"recipe", "recipes"} /\ resp.count > 0

C15_UndecodableListIsEmptyList ==
    Returned =>
        \A f \in ListFields :
            /\ resp[f] = Marshal(Hydrate(store[f]))
            /\ (store[f] = <<>> \/ ~Decodes(store[f])) => resp[f] = <<"[", "]">>

(***************************************************************************)
(* C18.  A single-recipe lookup that matches no row answers with a         *)
(* not-found indication that carries no Recipe field, on the REST lookup   *)
(* and on the RPC get_recipe, and no store failure and no found recipe     *)
(* gets that answer.                                                       *)
(***************************************************************************)
NoRow == ~store.fail /\ store.matching = 0

C18_NotFoundDistinct ==
    (Looked /\ NoRow) =>
        /\ resp.kind = "notfound"
        /\ resp.count = 0
        /\ \A f \in ListFields : resp[f] = <<>>
        /\ \A out \in RowOutcomes :
                (out.fail \/ out.matching > 0) => LookupResponse(surface, out) # resp

C18_Witness ==
    /\ Looked
    /\ NoRow
    /\ surface = "mcpGetRecipe"
    /\ sqlArgs = <<IntArg(1)>>

(***************************************************************************)
(* C30.  The sort direction in the query text is the literal ASC or DESC,  *)
(* never caller text: an ORDER BY ends with DESC exactly when sort_order   *)
(* is the lower-case string "desc", and with ASC for every other value,    *)
(* absent, empty, "DESC" and arbitrary strings included.                   *)
(***************************************************************************)
C30_SortDirectionLiteral ==
    Executed =>
        \A i \in DOMAIN query :
            query[i] = "ORDER BY" =>
                /\ i + 2 <= Len(query)
                /\ query[i + 2] = IF TextAt(surface, req, "sort_order") = S("desc")
                                  THEN "DESC" ELSE "ASC"

C30_Witness ==
    /\ Executed
    /\ TextAt(surface, req, "sort_order") = S("DESC")
    /\ Occurs(<<"ORDER BY", "id", "ASC">>, query)

(***************************************************************************)
(* C26.  For every search and every input the number of '?' placeholders   *)
(* in the query text equals the number of arguments passed to the store,   *)
(* and the i-th argument belongs to the i-th placeholder: a pattern for a  *)
(* LIKE, a number for a range bound.                                       *)
(***************************************************************************)
\* What each placeholder of the fragment tok binds.
Binds(tok) ==
    CASE tok = SearchFrag -> <<"string", "string">>
      [] tok \in {IncludeFrag, ExcludeFrag} -> <<"string">>
      [] tok \in RangeFrags -> <<"number">>
      [] OTHER -> <<>>

RECURSIVE Expected(_)
Expected(text) == IF text = <<>> THEN <<>> ELSE Binds(Head(text)) \o Expected(Tail(text))

C26_PlaceholdersMatchArguments ==
    Executed =>
        /\ Placeholders(query) = Len(sqlArgs)
        /\ \A i \in DOMAIN sqlArgs :
                (sqlArgs[i].t = "string") <=> (Expected(query)[i] = "string")

(***************************************************************************)
(* C27.  When a request names a preset and also gives a constraint on a    *)
(* field the preset constrains, both fragments are emitted, every preset   *)
(* fragment and argument comes before every caller fragment and argument,  *)
(* and the caller's value neither replaces nor removes the preset's bound: *)
(* the statement is the preset's part followed by the statement of the     *)
(* same request without diet.                                              *)
(***************************************************************************)
KnownDiet ==
    /\ "diet" \in DOMAIN req
    /\ HasPlan(TableOf(surface), TextAt(surface, req, "diet"))

\* What the preset alone adds to the bare statement on the surface s.
PresetParts(s, diet) ==
    { IF s = "searchRecipesMCP" THEN DietPartMcp(Start, TableOf(s), diet, ord)
                                ELSE DietPart(Start, TableOf(s), diet, ord) :
        ord \in DietOrders(TableOf(s), diet) }

C27_PresetBeforeCaller ==
    (Executed /\ KnownDiet) =>
        \E p \in PresetParts(surface, TextAt(surface, req, "diet")) :
            \E q \in BuildsOf(surface, Without(req, {"diet"})) :
                /\ query = p.query \o Tail(q.query)
                /\ sqlArgs = p.args \o q.args

C27_Witness ==
    /\ Executed
    /\ surface = "searchRecipes"
    /\ req = [diet |-> S("keto"), max_carbs |-> OneAndHalf]
    /\ CountOf("AND carbs <= ?", query) = 2
    /\ Len(sqlArgs) = 3

(***************************************************************************)
(* C23.  Every successful search response, on every surface, has the       *)
(* shape {recipes, count} in which count equals the number of elements of  *)
(* recipes.                                                                *)
(***************************************************************************)
C23_CountIsLengthOfRecipes ==
    (Executed /\ ~Answer.err) =>
        /\ resp.status = 200
        /\ resp.kind = "recipes"
        /\ resp.count = resp.recipes

C23_Witness ==
    /\ Executed
    /\ surface = "searchRecipes"
    /\ store.bad = 1
    /\ resp.recipes = 20
    /\ resp.count = 20

(***************************************************************************)
(* C21.  In a chat request the store is queried only after the translator  *)
(* has returned successfully and only when the execute flag is set;        *)
(* without the flag the response carries the generated query string and no *)
(* recipes, and the store is never touched.                                *)
(***************************************************************************)
Chatted == pc = "responded" /\ surface = "handleChat"

Translated == translator.calls = 1 /\ translator.outcome \in TranslatorOutcomes \ TranslatorFailures

RpcAnswered == pc = "responded" /\ rpc # NoRpc

\* The methods the endpoint is to route.
Routed == {"initialize", "tools/list", "tools/call", "resources/list", "resources/read"}

\* C22: the RPC endpoint routes initialize, tools/list, tools/call, resources/list
\* and resources/read each to its handler (initialize, tools/list and
\* resources/list answer with their result, the other two with whatever their
\* handler answers), and answers any other method with an error envelope of code
\* -32601 and no result.
C22_MethodsRouted ==
    (RpcAnswered /\ rpc # Unparsable) =>
        CASE rpc.method = "initialize" -> resp.envelope = "result" /\ resp.kind = "initialize"
          [] rpc.method = "tools/list" -> resp.envelope = "result" /\ resp.kind = "tools"
          [] rpc.method = "resources/list" -> resp.envelope = "result" /\ resp.kind = "resources"
          [] rpc.method \in {"tools/call", "resources/read"} -> resp.kind # "Method not found"
          [] OTHER ->
                /\ resp.envelope = "error"
                /\ reply.code = -32601
                /\ resp.kind = "Method not found"

\* C28: every request to the RPC endpoint gets one response envelope, with the
\* request's id and exactly one of result and error, also when params, the tool
\* name or arguments are missing or of another type; a get_recipe call whose id
\* is no number gets the error -32602 and no store query.
C28_OneEnvelopePerRequest ==
    RpcAnswered =>
        /\ resp.status # 0
        /\ resp.envelope \in {"result", "error"}
        /\ reply.id = rpc.id
        /\ (resp.envelope = "error") <=> (reply.code # 0)
        /\ (rpc.method \in {"tools/call", "resources/read"} /\ rpc.params # "object") =>
                resp.envelope = "error"
        /\ (rpc = ToolCall(rpc.id, "get_recipe")
              /\ ~("id" \in DOMAIN req /\ req["id"].t = "number")) =>
                (resp.envelope = "error" /\ reply.code = -32602 /\ queried = 0)

\* The text that may follow the head of a statement: the fragments, the order
\* and the limit the handlers write themselves.
Clauses ==
    {SearchFrag, IncludeFrag, ExcludeFrag} \cup RangeFrags \cup ValidSortColumns
    \cup {"ORDER BY", "ASC", "DESC", RestLimit, ToolLimit}

\* One SELECT on the recipes table.
Select(text) ==
    /\ text # <<>>
    /\ text[1] \in {BaseQuery, LookupQuery}
    /\ \A i \in 2..Len(text) : text[i] \in Clauses

\* The operations that read no recipe.
Listing ==
    \/ surface = "getDietPlans"
    \/ rpc.method \in {"initialize", "tools/list", "resources/list", "resources/read"}

\* C24: every request issues at most one store query, whatever its inputs and
\* whatever the query's outcome; the statement sent is one SELECT on the recipes
\* table; the preset listing, tools/list, resources/list, resources/read and
\* initialize issue none.
C24_AtMostOneSelect ==
    pc = "responded" =>
        /\ queried <= 1
        /\ queried = 1 => Select(query)
        /\ Listing => (queried = 0 /\ store = NoStore /\ query = <<>>)

C24_Witness ==
    /\ pc = "responded" /\ surface = "handleChat"
    /\ queried = 1 /\ store.fail
    /\ Occurs(<<SearchFrag>>, query)

\* C29: when several requests arrive together at Handler before the store
\* handle exists, the handle is opened at most once, and the requests that have
\* been served all used the same handle.
C29_HandleOpenedOnce ==
    /\ handlers.opened <= 1
    /\ \A v, w \in Workers :
        (handlers.at[v] = "done" /\ handlers.at[w] = "done") =>
            handlers.used[v] = handlers.used[w]

====
